---- MODULE Spec2Model ----
(***************************************************************************)
(* WalletLogs OTP backend: the request pipeline of src/index.js            *)
(* (request id, pre-route middleware, rate limiter, validation, SMTP       *)
(* dispatch, 404 and error handlers) with the configuration of             *)
(* src/config/validation.js (validateSendOtp, getRateLimitConfig).         *)
(*                                                                         *)
(* Time is in milliseconds.  Strings that the code inspects character by   *)
(* character (email, otp) are sequences of one-character strings.          *)
(***************************************************************************)
EXTENDS Integers, Sequences, FiniteSets, TLC

\* ------------------------------------------------------------------ bounds

\* the clock advances in steps of TickMs up to MaxNow
TickMs == 20500
MaxNow == 82000
\* the longest passcode the validation specification enumerates
MaxOtpLen == 7
\* the values RATE_LIMIT_WINDOW_MS / RATE_LIMIT_MAX_REQUESTS take when set
EnvWindowMs == 30000
EnvMax == 2

\* client network identifiers (req.ip) and the calls that can be in flight at once
Clients == {"ip1", "ip2"}
Slots == {"s1", "s2"}
\* a new call takes the first free slot
SlotOrder == <<"s1", "s2", "s3">>
\* values uuidv4() can return (one more than the calls in flight)
Uuids == {"uuid-1", "uuid-2", "uuid-3"}
\* values a caller can send in the X-Request-ID header ("" : header absent)
HeaderIds == {"", "hdr-1"}

\* ------------------------------------------------------- program constants

connectionTimeout == 10000
socketTimeout == 10000
\* gracefulShutdown: setTimeout(..., 10000)
forceCloseMs == 10000

\* ---------------------------------------------------------------- helpers

Ceil(a, b) == (a + b - 1) \div b

Digits == {"0", "1", "2", "3", "4", "5", "6", "7", "8", "9"}

AllIn(s, set) == \A i \in 1..Len(s) : s[i] \in set

Drop(s, n) == SubSeq(s, n + 1, Len(s))

\* validator.js isNumeric (no_symbols unset): /^[+-]?([0-9]*[.])?[0-9]+$/
IsNumeric(s) ==
  LET t == IF Len(s) > 0 /\ s[1] \in {"+", "-"} THEN Drop(s, 1) ELSE s
  IN  \/ Len(t) > 0 /\ AllIn(t, Digits)
      \/ \E k \in 1..Len(t) :
            /\ t[k] = "."
            /\ AllIn(SubSeq(t, 1, k - 1), Digits)
            /\ Len(t) > k
            /\ AllIn(Drop(t, k), Digits)

\* validator.js isEmail, to the extent the sample addresses need it: one "@",
\* a non-empty local part, a dotted domain with non-empty labels, at most 254
\* characters
IsEmail(s) ==
  /\ Len(s) <= 254
  /\ \E k \in 1..Len(s) :
        /\ s[k] = "@"
        /\ k > 1
        /\ \A j \in 1..Len(s) : s[j] = "@" => j = k
        /\ \E d \in (k + 2)..(Len(s) - 1) : s[d] = "."
        /\ s[k + 1] # "." /\ s[Len(s)] # "."

\* ------------------------------------------------------------------ inputs

GoodEmail == <<"a", "@", "b", ".", "c", "o">>
BadEmail == <<"b", "a", "d">>

\* request bodies of POST /send-otp
Payloads ==
  { [email |-> GoodEmail, otp |-> <<"1", "2", "3", "4", "5", "6">>],
    [email |-> GoodEmail, otp |-> <<"1", "2", "a", "4", "5", "6">>],
    [email |-> BadEmail, otp |-> <<"1">>] }

ValidPayload == [email |-> GoodEmail, otp |-> <<"1", "2", "3", "4", "5", "6">>]

NoPayload == [email |-> <<>>, otp |-> <<>>]

\* method and path (as segments) of an inbound call
Routes ==
  { [method |-> "GET", path |-> <<"health">>],
    [method |-> "POST", path |-> <<"send-otp">>],
    [method |-> "GET", path |-> <<"send-otp">>],
    [method |-> "POST", path |-> <<"send-otp", "health">>],
    [method |-> "GET", path |-> <<"other">>] }

\* what the pre-route middleware can object to: a body that does not parse,
\* an Origin header outside the production allow-list
Faults == {"none", "badJson", "badOrigin"}

\* error.message of a failed transport operation
TransportErrors == {"EAUTH", "ECONNECTION"}

\* ------------------------------------------------------------------- state

VARIABLES
  env,        \* process.env: NODE_ENV, RATE_LIMIT_WINDOW_MS, RATE_LIMIT_MAX_REQUESTS
  now,        \* Date.now()
  windows,    \* the limiter's table: client identifier -> [count, windowResetAt]
  calls,      \* the calls in flight, one per slot
  admitted,   \* per client: calls to /send-otp let through in its current window
  denied,     \* per client: windowResetAt of the window it was last denied in (0: never)
  server,     \* the http server and the process: phase, force-close deadline, exit code
  admissions  \* when kept: per client, the times of the last calls the limiter let through

vars == <<env, now, windows, calls, admitted, denied, server, admissions>>

Idle == [pc |-> "Idle"]

\* ----------------------------------------------------------- configuration

\* an environment variable holds an integer; 0 stands for unset or unparsable
\* (parseInt gives NaN), which `||` treats like 0
isProduction == env.NODE_ENV = "production"

\* seeded fault: RATE_LIMIT_WINDOW_MS is not read for windowMs
getRateLimitConfigNoWindowOverride ==
  [ windowMs |-> IF isProduction THEN 15 * 60 * 1000 ELSE 60 * 1000,
    max |-> IF env.RATE_LIMIT_MAX_REQUESTS # 0 THEN env.RATE_LIMIT_MAX_REQUESTS
            ELSE IF isProduction THEN 10 ELSE 5,
    message |->
      [ success |-> FALSE,
        error |-> "Too many requests. Please try again later.",
        retryAfter |-> Ceil(IF env.RATE_LIMIT_WINDOW_MS # 0
                              THEN env.RATE_LIMIT_WINDOW_MS
                              ELSE 15 * 60 * 1000, 1000) ] ]

\* getRateLimitConfig(): windowMs, max, and the static 429 body
getRateLimitConfig ==
  [ windowMs |-> IF env.RATE_LIMIT_WINDOW_MS # 0 THEN env.RATE_LIMIT_WINDOW_MS
                 ELSE IF isProduction THEN 15 * 60 * 1000 ELSE 60 * 1000,
    max |-> IF env.RATE_LIMIT_MAX_REQUESTS # 0 THEN env.RATE_LIMIT_MAX_REQUESTS
            ELSE IF isProduction THEN 10 ELSE 5,
    message |->
      [ success |-> FALSE,
        error |-> "Too many requests. Please try again later.",
        retryAfter |-> Ceil(IF env.RATE_LIMIT_WINDOW_MS # 0
                              THEN env.RATE_LIMIT_WINDOW_MS
                              ELSE 15 * 60 * 1000, 1000) ] ]

\* seeded fault: skip returns true for every request
skipAlways(mountedPath) == TRUE

\* skip: (req) => req.path === '/health', req.path being relative to the mount
skip(mountedPath) == mountedPath = <<"health">>

\* seeded fault: the limiter is not mounted
LimiterNotMounted(route) == FALSE

\* seeded fault: the limiter mounted on the health path as well
LimiterMountedOnHealthToo(route) ==
  Len(route.path) >= 1 /\ route.path[1] \in {"send-otp", "health"}

\* app.use('/send-otp', limiter): every method, the path and what is below it
LimiterMounted(route) == Len(route.path) >= 1 /\ route.path[1] = "send-otp"

\* seeded fault: one key for every client
keyGeneratorShared(call) == "ip1"

\* the limiter's key: req.ip (trust proxy 1)
keyGenerator(call) == call.client

\* nodemailer.createTransport options
TransportOptions ==
  [ secure |-> TRUE,
    connectionTimeout |-> connectionTimeout,
    socketTimeout |-> socketTimeout ]

\* seeded fault: verify and sendMail block the event loop until they return
QuietAndNoneSuspended ==
  \A s \in DOMAIN calls : calls[s].pc \notin {"Responded", "Verifying", "Sending"}

\* seeded fault: a transport without timers
TimersNeverFire == FALSE

\* a transport operation that gets no answer is ended by its timers
TimersArmed == TransportOptions.connectionTimeout > 0 /\ TransportOptions.socketTimeout > 0

\* ------------------------------------------------------------- rate limiter

\* seeded fault: windows on a fixed grid of multiples of windowMs, whenever
\* the client's first call came
CheckOnGrid(w, key, t, cfg) ==
  IF key \notin DOMAIN w \/ t >= w[key].windowResetAt
    THEN [ table |-> [k \in DOMAIN w \cup {key} |->
                        IF k = key
                          THEN [count |-> 1,
                                windowResetAt |-> ((t \div cfg.windowMs) + 1) * cfg.windowMs]
                          ELSE w[k]],
           allowed |-> TRUE, fresh |-> TRUE ]
  ELSE IF w[key].count < cfg.max
    THEN [ table |-> [w EXCEPT ![key].count = @ + 1], allowed |-> TRUE, fresh |-> FALSE ]
  ELSE [ table |-> w, allowed |-> FALSE, fresh |-> FALSE ]

\* check(clientId) on table w at time t: the table after, and the decision
Check(w, key, t, cfg) ==
  IF key \notin DOMAIN w \/ t > w[key].windowResetAt
    THEN [ table |-> [k \in DOMAIN w \cup {key} |->
                        IF k = key THEN [count |-> 1, windowResetAt |-> t + cfg.windowMs]
                        ELSE w[k]],
           allowed |-> TRUE, fresh |-> TRUE ]
  ELSE IF w[key].count < cfg.max
    THEN [ table |-> [w EXCEPT ![key].count = @ + 1], allowed |-> TRUE, fresh |-> FALSE ]
  ELSE [ table |-> w, allowed |-> FALSE, fresh |-> FALSE ]

\* --------------------------------------------------------------- validation

FieldError(param, msg, value) == [param |-> param, msg |-> msg, value |-> value]

\* body('email').isEmail()...isLength({max: 254})
EmailErrors(email) ==
  (IF IsEmail(email) THEN <<>>
   ELSE <<FieldError("email", "Invalid email format", email)>>)
  \o (IF Len(email) <= 254 THEN <<>>
      ELSE <<FieldError("email", "Email address too long", email)>>)

\* body('otp').isNumeric()...isLength({min: 6, max: 6})
OtpErrors(otp) ==
  (IF IsNumeric(otp) THEN <<>>
   ELSE <<FieldError("otp", "OTP must contain only numbers", otp)>>)
  \o (IF Len(otp) = 6 THEN <<>>
      ELSE <<FieldError("otp", "OTP must be exactly 6 digits", otp)>>)

\* seeded fault: validation stops at the first field that fails
validateSendOtpFirstFieldOnly(payload) ==
  IF EmailErrors(payload.email) # <<>> THEN EmailErrors(payload.email)
  ELSE OtpErrors(payload.otp)

\* validateSendOtp: both chains run, every failing validator reports
validateSendOtp(payload) == EmailErrors(payload.email) \o OtpErrors(payload.otp)

Messages(errs) == [i \in 1..Len(errs) |-> errs[i].msg]

\* ------------------------------------------------------------ the pipeline

Log(level, msg, id, email, errors, error) ==
  [ level |-> level, msg |-> msg, requestId |-> id, email |-> email,
    errors |-> errors, error |-> error ]

Respond(call, by, status, body, log) ==
  [ call EXCEPT !.pc = "Responded", !.by = by, !.responses = @ + 1,
                !.resp = [status |-> status, body |-> body, xRequestId |-> call.id],
                !.logs = @ \o log ]

\* request id middleware: req.id = req.headers['x-request-id'] || uuidv4()
RequestId(hdr, uuid) == IF hdr # "" THEN hdr ELSE uuid

\* cors (production: an Origin outside the allow-list is an error) and
\* express.json (a body that does not parse is an error)
PreRouteError(fault) == fault = "badJson" \/ (fault = "badOrigin" /\ isProduction)

\* app.get('/health')
HealthHandler(call) ==
  Respond(call, "health", 200, [status |-> "OK", requestId |-> call.id],
          <<Log("info", "Health check requested", call.id, <<>>, <<>>, "")>>)

\* app.use('*'): 404
NotFoundHandler(call) ==
  Respond(call, "notFound", 404,
          [success |-> FALSE, error |-> "Endpoint not found", requestId |-> call.id],
          <<Log("warn", "404 - Route not found", call.id, <<>>, <<>>, "")>>)

\* app.use((error, req, res, next) => ...): 500
ErrorHandler(call, text) ==
  Respond(call, "errorHandler", 500,
          [success |-> FALSE, error |-> "Internal server error", requestId |-> call.id],
          <<Log("error", "Unhandled application error", call.id, <<>>, <<>>, text)>>)

\* the limiter's 429: the configured message, a Retry-After header
TooManyRequests(call, cfg) ==
  Respond(call, "limiter", 429, cfg.message, <<>>)

\* app.post('/send-otp') after validateSendOtp: the 400 branch
ValidationFailed(call, errs) ==
  Respond(call, "sendOtp", 400,
          [success |-> FALSE, error |-> "Validation failed", details |-> Messages(errs)],
          <<Log("warn", "Validation failed for OTP request", call.id,
                call.payload.email, errs, "")>>)

\* seeded fault: the 400 branch does not return: the handler goes on to the transport
SendOtpEntryNoReturn(call) ==
  [ call EXCEPT !.pc = "Verifying", !.verifies = @ + 1,
                !.logs = @ \o <<Log("info", "OTP send request received",
                                    call.id, call.payload.email, <<>>, "")>> ]

\* app.post('/send-otp') from its entry to the first await: the request is
\* logged, validation errors end the call, otherwise the transporter is
\* created and verify() is started
SendOtpEntry(call) ==
  LET errs == validateSendOtp(call.payload)
      c1 == [call EXCEPT !.logs = @ \o <<Log("info", "OTP send request received",
                                              call.id, call.payload.email, <<>>, "")>>]
  IN  IF Len(errs) > 0 THEN ValidationFailed(c1, errs)
      ELSE [c1 EXCEPT !.pc = "Verifying", !.verifies = @ + 1]

\* after await transporter.verify(): the mail is built and sendMail() started
OnVerified(call) ==
  [ call EXCEPT !.pc = "Sending", !.sends = @ + 1,
                !.logs = @ \o <<Log("info", "SMTP connection verified", call.id,
                                    <<>>, <<>>, "")>> ]

\* seeded fault: the success response is followed by the catch block's response
OnSentThenCatch(call) ==
  Respond(Respond(call, "sendOtp", 200,
                  [success |-> TRUE, message |-> "OTP sent successfully",
                   requestId |-> call.id],
                  <<Log("info", "OTP email sent successfully", call.id,
                        call.payload.email, <<>>, "")>>),
          "sendOtp", 500,
          [ success |-> FALSE,
            error |-> "Failed to send verification email. Please try again.",
            requestId |-> call.id ],
          <<Log("error", "Failed to send OTP email", call.id,
                call.payload.email, <<>>, "ERR_HTTP_HEADERS_SENT")>>)

\* after await transporter.sendMail(): 200
OnSent(call) ==
  Respond(call, "sendOtp", 200,
          [success |-> TRUE, message |-> "OTP sent successfully", requestId |-> call.id],
          <<Log("info", "OTP email sent successfully", call.id,
                call.payload.email, <<>>, "")>>)

\* seeded fault: the catch block puts error.message in the response
OnTransportErrorLeaky(call, text) ==
  Respond([call EXCEPT !.failed = TRUE], "sendOtp", 500,
          [success |-> FALSE, error |-> text, requestId |-> call.id],
          <<Log("error", "Failed to send OTP email", call.id,
                call.payload.email, <<>>, text)>>)

\* seeded fault: the catch block tries again
RetryOnTransportError(call, text) ==
  [ call EXCEPT !.pc = "Verifying", !.verifies = @ + 1, !.failed = TRUE,
                !.logs = @ \o <<Log("error", "Failed to send OTP email", call.id,
                                    call.payload.email, <<>>, text)>> ]

\* catch (error): the error is logged, the caller gets the fixed 500
OnTransportError(call, text) ==
  Respond([call EXCEPT !.failed = TRUE], "sendOtp", 500,
          [ success |-> FALSE,
            error |-> "Failed to send verification email. Please try again.",
            requestId |-> call.id ],
          <<Log("error", "Failed to send OTP email", call.id,
                call.payload.email, <<>>, text)>>)

\* ----------------------------------------------------------------- actions

NoResp == [status |-> 0, body |-> <<>>, xRequestId |-> ""]

Envs ==
  [ NODE_ENV : {"development", "production"},
    RATE_LIMIT_WINDOW_MS : {0, EnvWindowMs},
    RATE_LIMIT_MAX_REQUESTS : {0, EnvMax} ]

IsSendOtp(route) == route.method = "POST" /\ route.path = <<"send-otp">>
IsHealth(route) == route.method = "GET" /\ route.path = <<"health">>

InFlight(s) == calls[s].pc # "Idle"

Live == DOMAIN calls

\* res.json() ends the turn of the event loop it is called in: no other
\* callback runs between a response and the end of its call
Quiet == \A s \in Live : calls[s].pc # "Responded"

FirstFree(s) ==
  \E i \in 1..Len(SlotOrder) :
     /\ SlotOrder[i] = s
     /\ s \in Live
     /\ ~InFlight(s)
     /\ \A j \in 1..(i - 1) : SlotOrder[j] \in Live => InFlight(SlotOrder[j])

\* the process has not exited
Alive == server.phase # "exited"

\* the event loop can run a callback
Ready == Alive /\ Quiet

\* server.close() has not been called: the server takes new calls
Accepting == server.phase = "listening"

\* the slot the next call takes, if the server takes calls and no response is
\* being written
Free == {s \in Live : Accepting /\ Quiet /\ FirstFree(s)}

\* uuidv4(): a value no call in flight carries
FreshUuid == CHOOSE u \in Uuids : \A s \in Live : InFlight(s) => calls[s].id # u

\* seeded fault: the limiter's write is lost while another call is in flight
LimiterLostUpdate(call) ==
  IF ~LimiterMounted(call.route)
    THEN [table |-> windows, decision |-> "none", fresh |-> FALSE]
  ELSE IF skip(Tail(call.route.path))
    THEN [table |-> windows, decision |-> "skipped", fresh |-> FALSE]
  ELSE LET r == Check(windows, keyGenerator(call), now, getRateLimitConfig)
           busy == \E s \in Live : InFlight(s)
       IN  [ table |-> IF busy /\ ~r.fresh THEN windows ELSE r.table,
             decision |-> IF r.allowed THEN "allowed" ELSE "denied",
             fresh |-> r.fresh ]

\* the limiter as mounted: not consulted off its mount or when skip says so,
\* otherwise the table is updated and the call let through or denied
Limiter(call) ==
  IF ~LimiterMounted(call.route)
    THEN [table |-> windows, decision |-> "none", fresh |-> FALSE]
  ELSE IF skip(Tail(call.route.path))
    THEN [table |-> windows, decision |-> "skipped", fresh |-> FALSE]
  ELSE LET r == Check(windows, keyGenerator(call), now, getRateLimitConfig)
       IN  [ table |-> r.table,
             decision |-> IF r.allowed THEN "allowed" ELSE "denied",
             fresh |-> r.fresh ]

\* the routes, in the order they are registered; express.json has put the
\* parsed body in req.body
Routed(call, payload) ==
  IF IsHealth(call.route) THEN HealthHandler(call)
  ELSE IF IsSendOtp(call.route)
    THEN [call EXCEPT !.pc = "Validating", !.payload = payload]
  ELSE NotFoundHandler(call)

\* the last n entries of s
KeepLast(s, n) == IF Len(s) <= n THEN s ELSE SubSeq(s, Len(s) - n + 1, Len(s))

\* the record of admission times after the limiter has let a call of c through
Admit(c) ==
  IF admissions.on
    THEN [admissions EXCEPT !.at[c] =
            KeepLast(Append(@, now), 2 * getRateLimitConfig.max)]
    ELSE admissions

\* the process has started: no call yet, an empty limiter table
Started(E, SL, keep) ==
  /\ env \in E
  /\ now = 0
  /\ windows = [k \in {} |-> 0]
  /\ calls = [s \in SL |-> Idle]
  /\ admitted = [c \in Clients |-> 0]
  /\ denied = [c \in Clients |-> 0]
  /\ server = [phase |-> "listening", deadline |-> 0, code |-> 0]
  /\ admissions = [on |-> keep, at |-> [c \in Clients |-> <<>>]]

InitOver(E, SL) == Started(E, SL, FALSE)

\* a call arrives and runs the middleware chain up to its route: request id,
\* cors and body parsing, the limiter, then the health or 404 handler; a
\* POST /send-otp that is let through waits for its validators
Arrive(s, c, route, hdr, fault, payload) ==
  /\ s \in Free
  /\ LET call == [ pc |-> "Received", client |-> c, route |-> route,
                   id |-> RequestId(hdr, FreshUuid), payload |-> NoPayload,
                   limiter |-> "none", verifies |-> 0, sends |-> 0,
                   failed |-> FALSE, by |-> "", resp |-> NoResp, responses |-> 0,
                   after |-> {u \in Live : InFlight(u)}, logs |-> <<>> ]
         lim == Limiter(call)
         seen == [call EXCEPT !.limiter = lim.decision]
     IN  IF PreRouteError(fault)
           THEN /\ calls' = [calls EXCEPT ![s] = ErrorHandler(call, fault)]
                /\ UNCHANGED <<windows, admitted, denied, admissions>>
           ELSE /\ calls' = [calls EXCEPT ![s] =
                               IF lim.decision = "denied"
                                 THEN TooManyRequests(seen, getRateLimitConfig)
                                 ELSE Routed(seen, payload)]
                /\ windows' = lim.table
                /\ admitted' = [admitted EXCEPT ![c] =
                                  (IF lim.fresh THEN 0 ELSE @)
                                  + (IF route.path = <<"send-otp">> /\ lim.decision # "denied"
                                       THEN 1 ELSE 0)]
                /\ denied' = IF lim.decision = "denied"
                               THEN [denied EXCEPT ![c] = windows[c].windowResetAt]
                               ELSE denied
                /\ admissions' = IF lim.decision = "allowed" THEN Admit(c) ELSE admissions
  /\ UNCHANGED <<env, now, server>>

\* the validators and the handler up to its first await
Handle(s) ==
  /\ Ready
  /\ calls[s].pc = "Validating"
  /\ calls' = [calls EXCEPT ![s] = SendOtpEntry(@)]
  /\ UNCHANGED <<env, now, windows, admitted, denied, server, admissions>>

VerifyOk(s) ==
  /\ Ready
  /\ calls[s].pc = "Verifying"
  /\ calls' = [calls EXCEPT ![s] = OnVerified(@)]
  /\ UNCHANGED <<env, now, windows, admitted, denied, server, admissions>>

VerifyFail(s, text) ==
  /\ Ready
  /\ calls[s].pc = "Verifying"
  /\ calls' = [calls EXCEPT ![s] = OnTransportError(@, text)]
  /\ UNCHANGED <<env, now, windows, admitted, denied, server, admissions>>

SendOk(s) ==
  /\ Ready
  /\ calls[s].pc = "Sending"
  /\ calls' = [calls EXCEPT ![s] = OnSent(@)]
  /\ UNCHANGED <<env, now, windows, admitted, denied, server, admissions>>

SendFail(s, text) ==
  /\ Ready
  /\ calls[s].pc = "Sending"
  /\ calls' = [calls EXCEPT ![s] = OnTransportError(@, text)]
  /\ UNCHANGED <<env, now, windows, admitted, denied, server, admissions>>

\* the relay has not answered: the transport's timers end the operation
Timeout(s) ==
  /\ Ready
  /\ calls[s].pc \in {"Verifying", "Sending"}
  /\ TimersArmed
  /\ calls' = [calls EXCEPT ![s] = OnTransportError(@, "ETIMEDOUT")]
  /\ UNCHANGED <<env, now, windows, admitted, denied, server, admissions>>

\* the response has been written; the call's context is discarded
Retire(s) ==
  /\ Alive
  /\ calls[s].pc = "Responded"
  /\ calls' = [u \in Live |->
                IF u = s THEN Idle
                ELSE IF InFlight(u) THEN [calls[u] EXCEPT !.after = @ \ {s}]
                ELSE calls[u]]
  /\ UNCHANGED <<env, now, windows, admitted, denied, server, admissions>>

\* seeded fault: the force-close timer is never armed
ForceCloseNever == FALSE

\* the force-close timer is due
ForceCloseDue == server.phase = "closing" /\ now >= server.deadline

\* time passes, up to the next timer that is due
Tick ==
  /\ Ready
  /\ ~ForceCloseDue
  /\ IF server.phase = "closing" /\ server.deadline < now + TickMs
       THEN now' = server.deadline
       ELSE now + TickMs <= MaxNow /\ now' = now + TickMs
  /\ UNCHANGED <<env, windows, calls, admitted, denied, server, admissions>>

Signals == {"SIGTERM", "SIGINT"}

\* process.on(signal): gracefulShutdown calls server.close(cb) and arms the
\* 10 s timer; a further signal adds a later timer and changes nothing
gracefulShutdown(signal) ==
  /\ Ready
  /\ server.phase = "listening"
  /\ server' = [server EXCEPT !.phase = "closing", !.deadline = now + forceCloseMs]
  /\ UNCHANGED <<env, now, windows, calls, admitted, denied, admissions>>

\* server.close's callback: every call has ended; process.exit(0)
ServerClosed ==
  /\ Ready
  /\ server.phase = "closing"
  /\ \A s \in Live : ~InFlight(s)
  /\ server' = [server EXCEPT !.phase = "exited", !.code = 0]
  /\ UNCHANGED <<env, now, windows, calls, admitted, denied, admissions>>

\* the setTimeout callback: process.exit(1)
ForceClose ==
  /\ Ready
  /\ ForceCloseDue
  /\ server' = [server EXCEPT !.phase = "exited", !.code = 1]
  /\ UNCHANGED <<env, now, windows, calls, admitted, denied, admissions>>

Shutdown ==
  \/ \E signal \in Signals : gracefulShutdown(signal)
  \/ ServerClosed
  \/ ForceClose

\* the calls that arrive are drawn from clients C, X-Request-ID headers H,
\* pre-route faults F and request bodies P
Pipeline(C, H, F, P) ==
  \/ \E s \in Free, c \in C, route \in Routes, hdr \in H, fault \in F :
        \E payload \in (IF IsSendOtp(route) THEN P ELSE {NoPayload}) :
           Arrive(s, c, route, hdr, fault, payload)
  \/ \E s \in Live : Handle(s)
  \/ \E s \in Live : VerifyOk(s)
  \/ \E s \in Live, text \in TransportErrors : VerifyFail(s, text)
  \/ \E s \in Live : SendOk(s)
  \/ \E s \in Live, text \in TransportErrors : SendFail(s, text)
  \/ \E s \in Live : Timeout(s)
  \/ \E s \in Live : Retire(s)

NextOver(C, H, F, P) == Pipeline(C, H, F, P) \/ Tick

\* the request pipeline: one client, two calls in flight, every header, fault
\* and body, with the rate limit set through the environment
EnvsSet == {e \in Envs : e.RATE_LIMIT_WINDOW_MS # 0 /\ e.RATE_LIMIT_MAX_REQUESTS # 0}

Init == InitOver(EnvsSet, Slots)

Next == NextOver({"ip1"}, HeaderIds, Faults, Payloads)

Spec == Init /\ [][Next]_vars

\* the rate limiter: two clients, one call at a time; development with
\* and without the overrides, production with them
LimiterEnvs ==
  {e \in Envs : \/ e.NODE_ENV = "development" /\ e.RATE_LIMIT_WINDOW_MS = 0
                \/ e.RATE_LIMIT_WINDOW_MS # 0 /\ e.RATE_LIMIT_MAX_REQUESTS # 0}

InitLimiter == InitOver(LimiterEnvs, {"s1"})

NextLimiter == NextOver(Clients, {""}, Faults, {ValidPayload})

SpecLimiter == InitLimiter /\ [][NextLimiter]_vars

\* validation: one client, one call at a time, no clock, request bodies with
\* every passcode of 5 to MaxOtpLen characters over OtpAlphabet and the
\* passcodes of OtpExamples
OtpAlphabet == {"0", "-", "."}

OtpExamples ==
  { <<"1", "2", "3", "4", "5", "6">>, <<"0", "0", "0", "0", "0", "0">>,
    <<"1", "2", "3", "4", "5">>, <<"1", "2", "3", "4", "5", "6", "7">>,
    <<"1", "2", "a", "4", "5", "6">>, <<"-", "1", "2", "3", "4", "5">>,
    <<"1", "2", ".", "3", "4", "5">>, <<"1">> }

OtpStrings == OtpExamples \cup UNION {[1..n -> OtpAlphabet] : n \in 5..MaxOtpLen}

ValidatePayloads ==
  {[email |-> e, otp |-> o] : e \in {GoodEmail}, o \in OtpStrings}
  \cup {[email |-> BadEmail, otp |-> o] : o \in OtpExamples}

InitValidate == InitOver({e \in EnvsSet : e.NODE_ENV = "development"}, {"s1"})

NextValidate == Pipeline({"ip1"}, {""}, {"none"}, ValidatePayloads)

SpecValidate == InitValidate /\ [][NextValidate]_vars

\* progress: one client, two calls in flight.  The event loop runs every
\* callback that is ready (the handler after its validators, the end of a
\* response) and every timer that is due; nothing is assumed of the relay
InitLive == InitOver({e \in EnvsSet : e.NODE_ENV = "development"}, Slots)

NextLive == NextOver({"ip1"}, {""}, {"none"}, {ValidPayload})

Fairness ==
  \A s \in Slots :
    /\ SF_vars(Handle(s))
    /\ SF_vars(Timeout(s))
    /\ WF_vars(Retire(s))

SpecLive == InitLive /\ [][NextLive]_vars /\ Fairness

\* shutdown: one client, two calls in flight, a signal at any moment.  Time
\* passes, callbacks that are ready and timers that are due run; nothing is
\* assumed of the relay or of the handlers' progress
InitShutdown == InitOver({e \in EnvsSet : e.NODE_ENV = "production"}, Slots)

NextShutdown == NextOver({"ip1"}, {""}, {"none"}, {ValidPayload}) \/ Shutdown

FairnessShutdown ==
  /\ WF_vars(Tick)
  /\ WF_vars(ServerClosed)
  /\ WF_vars(ForceClose)
  /\ \A s \in Slots : WF_vars(Retire(s))

SpecShutdown == InitShutdown /\ [][NextShutdown]_vars /\ FairnessShutdown

\* bursts: one client, one call at a time, the times of the calls the limiter
\* lets through are kept.  Time passes and responses end
InitBurst == Started({e \in EnvsSet : e.NODE_ENV = "development"}, {"s1"}, TRUE)

NextBurst == NextOver({"ip1"}, {""}, {"none"}, {ValidPayload})

FairnessBurst == WF_vars(Tick) /\ WF_vars(Retire("s1"))

SpecBurst == InitBurst /\ [][NextBurst]_vars /\ FairnessBurst

\* concurrency: two clients, three calls in flight, no clock
InitConcurrent ==
  Started({e \in EnvsSet : e.NODE_ENV = "development"}, {"s1", "s2", "s3"}, FALSE)

NextConcurrent == Pipeline(Clients, {""}, {"none"}, {ValidPayload})

SpecConcurrent == InitConcurrent /\ [][NextConcurrent]_vars

\* ------------------------------------------------------------------ claims

Responded(s) == calls[s].pc = "Responded"

\* a call has just arrived in slot s
Arrived(s) == ~InFlight(s) /\ calls'[s].pc # "Idle"

\* the limiter looked the arriving call's client up in its table
Consulted(s) == calls'[s].limiter \in {"allowed", "denied"}

WindowOpen(c) == c \in DOMAIN windows /\ now <= windows[c].windowResetAt

C1_DeniedStep ==
  \A s \in Live :
    ( /\ Arrived(s)
      /\ Consulted(s)
      /\ IsSendOtp(calls'[s].route)
      /\ WindowOpen(calls'[s].client)
      /\ admitted[calls'[s].client] = getRateLimitConfig.max )
    => /\ calls'[s].pc = "Responded"
       /\ calls'[s].resp.status = 429
       /\ admitted' = admitted

\* C1: in one window the limiter lets through at most max calls of a client,
\* and a POST /send-otp that reaches it when max have been let through in the
\* open window is answered 429
C1_AtMostMaxPerWindow ==
  /\ [](\A c \in Clients : admitted[c] <= getRateLimitConfig.max)
  /\ [][C1_DeniedStep]_vars

\* C1 witness: five let through, the sixth answered 429 (default max)
C1_Witness ==
  \E s \in Live :
    /\ Responded(s)
    /\ calls[s].resp.status = 429
    /\ IsSendOtp(calls[s].route)
    /\ env.RATE_LIMIT_MAX_REQUESTS = 0
    /\ admitted[calls[s].client] = 5

\* C2: every response carries the call's request id in its body
C2_EveryBodyCarriesRequestId ==
  \A s \in Live :
    Responded(s) =>
      /\ "requestId" \in DOMAIN calls[s].resp.body
      /\ calls[s].resp.body.requestId = calls[s].id

C3_RetryAfterStep ==
  \A s \in Live :
    (Arrived(s) /\ calls'[s].resp.status = 429) =>
      LET c == calls'[s].client
          retryAfter == calls'[s].resp.body.retryAfter
      IN  /\ retryAfter = Ceil(windows[c].windowResetAt - now, 1000)
          /\ retryAfter * 1000 <= getRateLimitConfig.windowMs

\* C3: the retryAfter of a 429 is ceil((windowResetAt - now) / 1000) and at
\* most windowMs / 1000
C3_RetryAfterFromWindow == [][C3_RetryAfterStep]_vars

\* C4: a transport operation is started only for a call the limiter let
\* through and whose body passed validation; a call answered 429 or 400 has
\* started none, and a call answered 400 was not denied
C4_TransportOnlyAfterBothChecks ==
  \A s \in Live :
    InFlight(s) =>
      /\ (calls[s].verifies + calls[s].sends > 0 =>
            /\ calls[s].limiter = "allowed"
            /\ validateSendOtp(calls[s].payload) = <<>>)
      /\ (Responded(s) /\ calls[s].resp.status \in {400, 429} =>
            calls[s].verifies + calls[s].sends = 0)
      /\ (Responded(s) /\ calls[s].resp.status = 400 => calls[s].limiter = "allowed")
      /\ (Responded(s) /\ calls[s].resp.status = 429 => calls[s].limiter = "denied")

\* C4 witness: one call in the transport, another answered 400 without having touched it
C4_Witness ==
  \E s, u \in Live :
    /\ calls[s].pc = "Sending"
    /\ Responded(u)
    /\ calls[u].resp.status = 400
    /\ calls[u].verifies = 0

C5_HealthStep ==
  \A s \in Live :
    (Arrived(s) /\ IsHealth(calls'[s].route)) => windows' = windows

C5_HealthAnswered ==
  \A s \in Live :
    (Responded(s) /\ IsHealth(calls[s].route)) =>
      /\ calls[s].limiter = "none"
      /\ calls[s].resp.status # 429
      /\ (calls[s].by # "errorHandler" =>
            /\ calls[s].resp.status = 200
            /\ calls[s].resp.body.status = "OK")

\* C5: a health call is never put to the limiter and never answered 429; once
\* past the pre-route middleware it is answered 200 OK; its arrival leaves
\* the limiter's table as it was
C5_HealthNeverLimited == [](C5_HealthAnswered) /\ [][C5_HealthStep]_vars

\* C5 witness: a health call answered 200 while every client has used up its window
C5_Witness ==
  \E s \in Live :
    /\ Responded(s)
    /\ IsHealth(calls[s].route)
    /\ calls[s].resp.status = 200
    /\ \A c \in Clients :
         WindowOpen(c) /\ windows[c].count = getRateLimitConfig.max /\ denied[c] # 0

\* what a log record carries of the request
LoggedValues(l) == {l.email} \cup {l.errors[j].value : j \in 1..Len(l.errors)}

\* C6: the passcode of a call is in none of its log records
C6_PasscodeNeverLogged ==
  \A s \in Live :
    (InFlight(s) /\ calls[s].payload # NoPayload) =>
      \A i \in 1..Len(calls[s].logs) :
        calls[s].payload.otp \notin LoggedValues(calls[s].logs[i])

SixDigits(otp) == Len(otp) = 6 /\ AllIn(otp, Digits)

\* C7: validation accepts a passcode exactly when it is six ASCII digits
C7_AcceptsExactlySixDigits ==
  \A s \in Live :
    /\ (calls[s].pc \in {"Verifying", "Sending"} => SixDigits(calls[s].payload.otp))
    /\ ( ( /\ Responded(s)
           /\ calls[s].resp.status = 400
           /\ IsEmail(calls[s].payload.email) )
         => ~SixDigits(calls[s].payload.otp) )

\* README, Rate Limiting: 1 minute in development, 15 minutes in production,
\* unless RATE_LIMIT_WINDOW_MS is set
DocumentedWindowMs ==
  IF env.RATE_LIMIT_WINDOW_MS # 0 THEN env.RATE_LIMIT_WINDOW_MS
  ELSE IF env.NODE_ENV = "production" THEN 900000 ELSE 60000

C8_FreshWindowStep ==
  \A s \in Live :
    ( /\ Arrived(s)
      /\ Consulted(s)
      /\ calls'[s].client \in DOMAIN windows
      /\ now > windows[calls'[s].client].windowResetAt )
    => /\ calls'[s].limiter = "allowed"
       /\ calls'[s].resp.status # 429
       /\ windows'[calls'[s].client] =
            [count |-> 1, windowResetAt |-> now + DocumentedWindowMs]

\* C8: a call that reaches the limiter after its client's window has run out
\* (now > windowResetAt) is let through and starts a window with count 1 that
\* ends windowMs from now
C8_ExpiredWindowIsReset == [][C8_FreshWindowStep]_vars

\* C8 witness: a client that was denied in a window that has run out is in a new window,
\* its call let through
C8_Witness ==
  \E s \in Live :
    LET c == calls[s].client
    IN  /\ calls[s].pc = "Validating"
        /\ denied[c] # 0
        /\ denied[c] < now
        /\ windows[c] = [count |-> 1, windowResetAt |-> now + DocumentedWindowMs]

C9_SingleAttemptState ==
  \A s \in Live :
    InFlight(s) =>
      /\ calls[s].verifies <= 1
      /\ calls[s].sends <= calls[s].verifies
      /\ (calls[s].failed =>
            /\ Responded(s)
            /\ calls[s].resp.status = 500
            /\ calls[s].by = "sendOtp")

C9_AfterFailureStep ==
  \A s \in Live :
    (InFlight(s) /\ calls[s].failed) => calls'[s] \in {calls[s], Idle}

\* C9: verify and sendMail are each started at most once per call, sendMail
\* only after a verify, and a call whose transport failed is answered at once
\* and does nothing more
C9_SingleAttempt == [](C9_SingleAttemptState) /\ [][C9_AfterFailureStep]_vars

\* C9 witness: a verify that failed, the call answered without a sendMail
C9_Witness ==
  \E s \in Live :
    /\ Responded(s)
    /\ calls[s].failed
    /\ calls[s].verifies = 1
    /\ calls[s].sends = 0

Pending(s) == calls[s].pc \in {"Validating", "Verifying", "Sending"}

TimedOut(s) ==
  /\ Responded(s)
  /\ Len(calls[s].logs) > 0
  /\ calls[s].logs[Len(calls[s].logs)].error = "ETIMEDOUT"

C10_TimeoutAnswered ==
  \A s \in Live :
    TimedOut(s) =>
      /\ calls[s].resp.status = 500
      /\ calls[s].resp.body.error = "Failed to send verification email. Please try again."

\* C10: a call that was let through is answered whatever the relay does, and
\* a transport operation ended by its timers gives the dispatch-failure 500
C10_AlwaysAnswered ==
  /\ [](C10_TimeoutAnswered)
  /\ \A s \in Slots : Pending(s) ~> Responded(s)

\* C10 witness: a sendMail that got no answer, ended by the timers
C10_Witness ==
  \E s \in Live : TimedOut(s) /\ calls[s].sends = 1

Closing == server.phase = "closing"

Exited == server.phase = "exited"

C11_NoNewCallStep == \A s \in Live : Arrived(s) => server.phase = "listening"

C11_ExitStep ==
  (~Exited /\ server'.phase = "exited") =>
    /\ Closing
    /\ \/ (\A s \in Live : ~InFlight(s)) /\ server'.code = 0 /\ now <= server.deadline
       \/ now = server.deadline /\ server'.code = 1

\* C11: after a shutdown signal no new call is taken, the process is never
\* alive past the 10 s grace period, it exits only when no call is in flight
\* or when the grace timer fires, and it always exits
C11_ShutdownTerminates ==
  /\ [][C11_NoNewCallStep /\ C11_ExitStep]_vars
  /\ [](Closing => now <= server.deadline /\ server.deadline <= now + forceCloseMs)
  /\ (Closing ~> Exited)

\* C11 witness: the grace timer ended the process with a call still waiting for the relay
C11_Witness ==
  /\ Exited
  /\ server.code = 1
  /\ now = server.deadline
  /\ \E s \in Live : calls[s].pc = "Verifying"

\* what a failed transport operation can report
ErrorTexts == TransportErrors \cup {"ETIMEDOUT"}

LastLog(s) == calls[s].logs[Len(calls[s].logs)]

\* C12: the response to a failed dispatch is status 500 with a body fixed by
\* the call's request id alone; the transport's error text is in none of its
\* fields and is in the call's last log record
C12_FailureBodyIndependentOfError ==
  \A s \in Live :
    (InFlight(s) /\ calls[s].failed) =>
      /\ calls[s].resp.status = 500
      /\ calls[s].resp.body =
           [ success |-> FALSE,
             error |-> "Failed to send verification email. Please try again.",
             requestId |-> calls[s].id ]
      /\ calls[s].resp.body.error \notin ErrorTexts
      /\ calls[s].resp.body.requestId \notin ErrorTexts
      /\ LastLog(s).error \in ErrorTexts
      /\ LastLog(s).level = "error"

\* C12 witness: a sendMail refused by the relay, answered with the fixed body
C12_Witness ==
  \E s \in Live :
    /\ Responded(s)
    /\ calls[s].failed
    /\ calls[s].sends = 1
    /\ LastLog(s).error = "ECONNECTION"
    /\ calls[s].resp.body.error = "Failed to send verification email. Please try again."

\* C13: a call that is neither GET /health nor POST /send-otp, and that the
\* pre-route middleware did not end with an error, is answered with the 404
\* envelope
C13_OtherRoutesGet404 ==
  \A s \in Live :
    ( /\ Responded(s)
      /\ ~IsHealth(calls[s].route)
      /\ ~IsSendOtp(calls[s].route)
      /\ calls[s].by # "errorHandler" )
    => /\ calls[s].resp.status = 404
       /\ calls[s].resp.body =
            [success |-> FALSE, error |-> "Endpoint not found", requestId |-> calls[s].id]

\* C14: two calls in flight never carry the same request id
C14_RequestIdsDistinct ==
  \A s, u \in Live :
    (s # u /\ InFlight(s) /\ InFlight(u)) => calls[s].id # calls[u].id

EmailMessages == {"Invalid email format", "Email address too long"}

OtpMessages == {"OTP must contain only numbers", "OTP must be exactly 6 digits"}

EmailFails(payload) == ~IsEmail(payload.email) \/ Len(payload.email) > 254

OtpFails(payload) == ~IsNumeric(payload.otp) \/ Len(payload.otp) # 6

Mentions(details, msgs) == \E i \in 1..Len(details) : details[i] \in msgs

\* C15: the details of a 400 name every field that fails its check and no
\* field that passes; email "bad" with otp "1" gives two messages
C15_AllFieldErrorsReported ==
  \A s \in Live :
    (Responded(s) /\ calls[s].resp.status = 400) =>
      LET details == calls[s].resp.body.details
          payload == calls[s].payload
      IN  /\ Mentions(details, EmailMessages) <=> EmailFails(payload)
          /\ Mentions(details, OtpMessages) <=> OtpFails(payload)
          /\ \A i \in 1..Len(details) : details[i] \in EmailMessages \cup OtpMessages
          /\ (payload = [email |-> BadEmail, otp |-> <<"1">>] => Len(details) = 2)

\* C15 witness: email "bad" with otp "1" answered 400 with one message for each field
C15_Witness ==
  \E s \in Live :
    /\ Responded(s)
    /\ calls[s].resp.status = 400
    /\ calls[s].payload = [email |-> BadEmail, otp |-> <<"1">>]
    /\ calls[s].resp.body.details = <<"Invalid email format", "OTP must be exactly 6 digits">>

C16_CheckAndWriteStep ==
  \A s \in Live :
    (Arrived(s) /\ Consulted(s) /\ WindowOpen(calls'[s].client)) =>
      LET c == calls'[s].client
      IN  IF windows[c].count < getRateLimitConfig.max
            THEN /\ calls'[s].limiter = "allowed"
                 /\ windows'[c].count = windows[c].count + 1
            ELSE /\ calls'[s].limiter = "denied"
                 /\ windows' = windows

\* C16: with calls in flight at once, the limiter's check and write are one
\* step: every call let through is counted in the table, the count never
\* exceeds max, and a call that finds the window full is denied
C16_LimiterAtomic ==
  /\ [][C16_CheckAndWriteStep]_vars
  /\ [](\A c \in DOMAIN windows :
          /\ windows[c].count = admitted[c]
          /\ windows[c].count <= getRateLimitConfig.max)

\* C16 witness: a call denied while calls of its client that were let through
\* wait for the relay
C16_Witness ==
  \E s, u \in Live :
    /\ Responded(s)
    /\ calls[s].resp.status = 429
    /\ calls[u].pc \in {"Verifying", "Sending"}
    /\ calls[u].client = calls[s].client
    /\ admitted[calls[s].client] = getRateLimitConfig.max

\* the call in slot s has got as far as its validators
ReachedValidation(s) ==
  calls[s].pc \in {"Validating", "Verifying", "Sending"} \/ calls[s].by = "sendOtp"

C17_CountedBeforeValidationStep ==
  \A s \in Live :
    /\ (Arrived(s) /\ calls'[s].pc = "Validating") =>
          LET c == calls'[s].client
          IN  /\ c \in DOMAIN windows'
              /\ windows'[c].count =
                   IF WindowOpen(c) THEN windows[c].count + 1 ELSE 1
    /\ ( /\ Arrived(s)
         /\ IsSendOtp(calls'[s].route)
         /\ calls'[s].by # "errorHandler"
         /\ WindowOpen(calls'[s].client)
         /\ windows[calls'[s].client].count >= getRateLimitConfig.max )
       => calls'[s].resp.status = 429
    /\ (InFlight(s) /\ ReachedValidation(s) /\ calls'[s] # calls[s]) => windows' = windows

\* C17: on the send path the limiter runs before validation: a call that
\* finds its client's window full is answered 429 with its body never looked
\* at, every call that reaches validation has been counted, and nothing that
\* happens to a call afterwards (400, 200, 500) gives the count back
C17_LimitBeforeValidation ==
  /\ [][C17_CountedBeforeValidationStep]_vars
  /\ [](\A s \in Live :
          InFlight(s) =>
            /\ (ReachedValidation(s) => calls[s].limiter = "allowed")
            /\ (calls[s].limiter = "denied" =>
                  /\ calls[s].resp.status = 429
                  /\ calls[s].payload = NoPayload
                  /\ calls[s].logs = <<>>))

\* C17 witness: a call answered 400 whose client has been denied in the window
\* that the 400 was counted in
C17_Witness ==
  \E s \in Live :
    LET c == calls[s].client
    IN  /\ Responded(s)
        /\ calls[s].resp.status = 400
        /\ WindowOpen(c)
        /\ windows[c].count = getRateLimitConfig.max
        /\ denied[c] = windows[c].windowResetAt

\* the last k calls of c that the limiter let through came within a span of
\* less than ms
LastWithin(c, k, ms) ==
  LET at == admissions.at[c]
  IN  Len(at) >= k /\ at[Len(at)] - at[Len(at) - k + 1] < ms

Statuses == {200, 400, 404, 429, 500}

C19_RespondedState ==
  \A s \in Live :
    InFlight(s) =>
      /\ calls[s].responses = (IF Responded(s) THEN 1 ELSE 0)
      /\ (Responded(s) => calls[s].resp.status \in Statuses)
      /\ (~Responded(s) => calls[s].resp = NoResp)

C19_TerminalStep ==
  \A s \in Live : Responded(s) => calls'[s] \in {calls[s], Idle}

\* C19: a call has one response when it is in Responded and none before,
\* and after its response nothing more happens to it: its context is
\* discarded unchanged
C19_RespondedOnce == [](C19_RespondedState) /\ [][C19_TerminalStep]_vars

\* C19 witness: a call answered 200 after one verify and one sendMail, with one response
C19_Witness ==
  \E s \in Live :
    /\ Responded(s)
    /\ calls[s].resp.status = 200
    /\ calls[s].by = "sendOtp"
    /\ calls[s].responses = 1
    /\ calls[s].sends = 1

Suspended(s) == calls[s].pc \in {"Verifying", "Sending"}

NoResponseInProgress == \A s \in Live : ~Responded(s)

HealthRoute == [method |-> "GET", path |-> <<"health">>]

SendOtpRoute == [method |-> "POST", path |-> <<"send-otp">>]

\* C20: while calls wait for the relay, the server takes a new call of any
\* client (health or send-otp) if it is listening, and every other call's
\* next step (its handler, the completion of its own verify or sendMail) can
\* run
C20_SuspendedCallsDoNotBlock ==
  ((\E u \in Live : Suspended(u)) /\ NoResponseInProgress /\ Alive) =>
    /\ (Accepting /\ \E s \in Live : ~InFlight(s)) =>
          \E s \in Live : \A c \in Clients :
             /\ ENABLED Arrive(s, c, HealthRoute, "", "none", NoPayload)
             /\ ENABLED Arrive(s, c, SendOtpRoute, "", "none", ValidPayload)
    /\ \A s \in Live :
          /\ calls[s].pc = "Validating" => ENABLED Handle(s)
          /\ calls[s].pc = "Verifying" => ENABLED VerifyOk(s)
          /\ calls[s].pc = "Sending" => ENABLED SendOk(s)

\* C20 witness: a send-otp call answered 200 while two calls that arrived before it
\* still wait for the relay
C20_Witness ==
  \E s, u, v \in Live :
    /\ u # v
    /\ Responded(s)
    /\ calls[s].resp.status = 200
    /\ calls[s].by = "sendOtp"
    /\ {u, v} \subseteq calls[s].after
    /\ Suspended(u)
    /\ Suspended(v)
    /\ calls[u].client # calls[v].client

\* the entries of the limiter's table other than client c's are as they were
OthersUntouched(c) ==
  /\ DOMAIN windows' \subseteq DOMAIN windows \cup {c}
  /\ \A k \in DOMAIN windows : k # c => windows'[k] = windows[k]

C21_IsolationStep ==
  /\ \A s \in Live :
        Arrived(s) =>
          LET c == calls'[s].client
          IN  /\ OthersUntouched(c)
              /\ Consulted(s) =>
                    ( calls'[s].limiter = "denied"
                      <=> (WindowOpen(c) /\ windows[c].count >= getRateLimitConfig.max) )
  /\ (\A s \in Live : ~Arrived(s)) => windows' = windows

\* C21: a call changes only its own client's window, and whether it is let
\* through depends only on that window and the time, whatever the other
\* clients have done
C21_WindowsIsolatedPerClient ==
  /\ [][C21_IsolationStep]_vars
  /\ [](\A c \in DOMAIN windows : windows[c].count = admitted[c])

\* C21 witness: a first call of one client let through while the other client's window
\* is full and has denied a call
C21_Witness ==
  \E s \in Live, c \in Clients :
    /\ calls[s].pc = "Validating"
    /\ calls[s].client # c
    /\ windows[calls[s].client].count = 1
    /\ WindowOpen(c)
    /\ windows[c].count = getRateLimitConfig.max
    /\ denied[c] = windows[c].windowResetAt

====
